---- MODULE Spec2Model ----
(***************************************************************************)
(* Grade-tracking web application (src/app.py): the grade-trend predictor, *)
(* the derived statistics of the student page, and the request handlers    *)
(* that write the students and subs collections.                       *)
(*                                                                         *)
(* Python floats are modelled as exact rationals (plus NaN).  The grade    *)
(* inputs are multiples of 1/8, which binary floats represent exactly, so  *)
(* round(x, 2) (round-half-even on the exact value) is modelled exactly on *)
(* them; accumulated floating-point error of the regression is abstracted. *)
(***************************************************************************)
EXTENDS Integers, Sequences, FiniteSets, TLC

\* ---------------------------------------------------------------- bounds
\* Longest history (subject records of one student) drawn by Init.
MaxLen == 3
\* Most documents (students and subject records together) a run inserts.
MaxOids == 2
\* Last value of the clock read by datetime.utcnow().
MaxClock == 1

\* ------------------------------------------------------------- constants
MIN_GRADE == 6
MAX_GRADE == 10
TARGET_AVG == 8

\* ------------------------------------------------------------ optionals
\* Python's None / a present value.
None == <<>>
Some(v) == <<v>>

\* ---------------------------------------------------------------- floats
RECURSIVE GCD(_, _)
GCD(a, b) == IF b = 0 THEN a ELSE GCD(b, a % b)

Abs(a) == IF a < 0 THEN -a ELSE a

\* The float n/d (d # 0), in lowest terms with a positive denominator.
Q(n, d) ==
    LET g == GCD(Abs(n), Abs(d))
        s == IF d < 0 THEN -1 ELSE 1
    IN [nan |-> FALSE, n |-> (s * n) \div g, d |-> (s * d) \div g]

NaN == [nan |-> TRUE, n |-> 0, d |-> 1]

I2F(i) == Q(i, 1)

FAdd(a, b) == IF a.nan \/ b.nan THEN NaN ELSE Q(a.n * b.d + b.n * a.d, a.d * b.d)
FSub(a, b) == IF a.nan \/ b.nan THEN NaN ELSE Q(a.n * b.d - b.n * a.d, a.d * b.d)
FMul(a, b) == IF a.nan \/ b.nan THEN NaN ELSE Q(a.n * b.n, a.d * b.d)
\* a / b for b # 0 (every division of the source is by a length or guarded).
FDiv(a, b) == IF a.nan \/ b.nan THEN NaN ELSE Q(a.n * b.d, a.d * b.n)

\* Comparisons: every comparison with NaN is false, except !=.
FLt(a, b) == ~a.nan /\ ~b.nan /\ a.n * b.d < b.n * a.d
FGt(a, b) == FLt(b, a)
FEq(a, b) == ~a.nan /\ ~b.nan /\ a.n * b.d = b.n * a.d
FNe(a, b) == ~FEq(a, b)
FLe(a, b) == FLt(a, b) \/ FEq(a, b)

\* Python's min(a, b) / max(a, b): the first argument unless the second is
\* strictly smaller / larger.
PyMin(a, b) == IF FLt(b, a) THEN b ELSE a
PyMax(a, b) == IF FGt(b, a) THEN b ELSE a

\* Python's sum(seq): left fold from 0.
RECURSIVE FSumTo(_, _)
FSumTo(seq, k) == IF k = 0 THEN I2F(0) ELSE FAdd(FSumTo(seq, k - 1), seq[k])
FSum(seq) == FSumTo(seq, Len(seq))

\* round(v, 2): to the nearest hundredth, ties to the even hundredth.
Round2(v) ==
    IF v.nan THEN NaN
    ELSE LET q == (100 * v.n) \div v.d
             r == 100 * v.n - q * v.d
             h == IF 2 * r < v.d THEN q
                  ELSE IF 2 * r > v.d THEN q + 1
                  ELSE IF q % 2 = 0 THEN q ELSE q + 1
         IN Q(h, 100)

\* --------------------------------------------------------------- records
\* Recording times (datetime values, as their timestamp()).
Dates == {10, 12}
\* date_added of a subject record: absent, or a datetime.
DateFields == {None} \cup {Some(t) : t \in Dates}
\* grade of a subject record: absent, or a float.
GradeValues == {NaN, Q(6, 1), Q(7, 1), Q(57, 8), Q(8, 1), Q(10, 1)}
GradeFields == {None} \cup {Some(g) : g \in GradeValues}
\* The fields of a subject record the predictor and the student page read.
SubjectDocs == [grade : GradeFields, date_added : DateFields]

\* s.get("grade", 0) converted by float().
GradeOf(s) == IF s.grade = None THEN I2F(0) ELSE s.grade[1]

\* Order of sort("date_added", 1): a missing field sorts before every date.
DateKey(s) == IF s.date_added = None THEN -1 ELSE s.date_added[1]
SortedByDate(seq) ==
    \A i \in 1..Len(seq) : \A j \in 1..Len(seq) :
        i < j => DateKey(seq[i]) <= DateKey(seq[j])

VARIABLES
    history,    \* the subject records stored for the student
    queried,    \* the query result predict worked on
    points,     \* the points predict passed to the regression
    resp,       \* the last response of /predict
    page,       \* the statistics of the last GET of the student page
    pc,         \* "request": the request is not served yet; then the handler that served it
    db_students,    \* mongo.db.students
    db_subjects,    \* mongo.db.subjects
    thr,            \* each request thread: its position and its locals
    next_oid,       \* the next ObjectId the driver generates
    clock,          \* datetime.utcnow()
    last            \* the last response sent, and whether its step changed db_subjects

pureVars == <<history, queried, points, resp, page, pc>>
appVars == <<db_students, db_subjects, thr, next_oid, clock, last>>
vars == <<pureVars, appVars>>

\* ------------------------------------------------------------- predictor
\* prepare_points_from_subjects: the timestamp of date_added when the record
\* has one, the record's position in the list otherwise.
prepare_points_from_subjects(subs) ==
    [i \in 1..Len(subs) |->
        <<IF subs[i].date_added # None
             THEN I2F(subs[i].date_added[1])
             ELSE I2F(i - 1),
          GradeOf(subs[i])>>]

Xs(pts) == [i \in 1..Len(pts) |-> pts[i][1]]
Ys(pts) == [i \in 1..Len(pts) |-> pts[i][2]]
Mean(vals) == FDiv(FSum(vals), I2F(Len(vals)))

\* slope = num/den if den != 0 else 0 (two or more points).
lr_slope(pts) ==
    LET xs == Xs(pts)
        ys == Ys(pts)
        x_mean == Mean(xs)
        y_mean == Mean(ys)
        num == FSum([i \in 1..Len(pts) |->
                        FMul(FSub(xs[i], x_mean), FSub(ys[i], y_mean))])
        den == FSum([i \in 1..Len(pts) |->
                        FMul(FSub(xs[i], x_mean), FSub(xs[i], x_mean))])
    IN IF FNe(den, I2F(0)) THEN FDiv(num, den) ELSE I2F(0)

\* intercept = y_mean - slope*x_mean
lr_intercept(pts) == FSub(Mean(Ys(pts)), FMul(lr_slope(pts), Mean(Xs(pts))))

\* (a variant: one fixed unit past the last x, not one average gap)
lr_next_x_unit_step(pts) == FAdd(Xs(pts)[Len(pts)], I2F(1))

\* next_x = xs[-1] + sum(deltas)/len(deltas)
lr_next_x(pts) ==
    LET xs == Xs(pts)
        deltas == [i \in 1..(Len(pts) - 1) |-> FSub(xs[i + 1], xs[i])]
    IN FAdd(xs[Len(pts)], FDiv(FSum(deltas), I2F(Len(deltas))))

\* pred = slope*next_x + intercept
lr_pred(pts) == FAdd(FMul(lr_slope(pts), lr_next_x(pts)), lr_intercept(pts))

\* (a variant: the lower limit forgotten)
Clip_no_floor(v) == PyMin(I2F(MAX_GRADE), v)

\* max(MIN_GRADE, min(MAX_GRADE, pred))
Clip(v) == PyMax(I2F(MIN_GRADE), PyMin(I2F(MAX_GRADE), v))

\* (a variant: a single point answered with its x instead of its grade)
linear_regression_predict_x(pts) ==
    IF Len(pts) = 0 THEN None
    ELSE IF Len(pts) = 1 THEN Some(pts[1][1])
    ELSE Some(Round2(Clip(lr_pred(pts))))

linear_regression_predict(pts) ==
    IF Len(pts) = 0 THEN None
    ELSE IF Len(pts) = 1 THEN Some(pts[1][2])
    ELSE Some(Round2(Clip(lr_pred(pts))))

TrendText == "Prediction based on linear trend of historical grades."
BaselineText == "Not enough history; using baseline average."
NoGradesText == "No grades available."

\* /predict for a query result that is not empty.
predict_grades(subs) ==
    LET pts == prepare_points_from_subjects(subs)
        pred == linear_regression_predict(pts)
        grades == [i \in 1..Len(subs) |-> GradeOf(subs[i])]
        baseline_avg == Some(Round2(Mean(grades)))
    IN IF pred = None
       THEN [status |-> 200, prediction |-> baseline_avg,
             baseline_avg |-> baseline_avg, explanation |-> BaselineText]
       ELSE [status |-> 200, prediction |-> pred,
             baseline_avg |-> baseline_avg, explanation |-> TrendText]

\* (a variant: an empty history answered with a baseline average of 0)
predict_zero_baseline(subs) ==
    IF Len(subs) = 0
    THEN [status |-> 200, prediction |-> None, baseline_avg |-> Some(I2F(0)),
          explanation |-> NoGradesText]
    ELSE predict_grades(subs)

\* The body of /predict on the sorted query result.
predict(subs) ==
    IF Len(subs) = 0
    THEN [status |-> 200, prediction |-> None, baseline_avg |-> None,
          explanation |-> NoGradesText]
    ELSE predict_grades(subs)

\* ---------------------------------------------------------- student page
\* (a variant: the next subject not counted)
required_grade_count(grades) ==
    IF Len(grades) > 0
    THEN LET required == FSub(FMul(I2F(TARGET_AVG), I2F(Len(grades))),
                              FSum(grades))
         IN IF FGt(required, I2F(MAX_GRADE)) THEN None
            ELSE IF FLt(required, I2F(MIN_GRADE)) THEN Some(I2F(MIN_GRADE))
            ELSE Some(Round2(required))
    ELSE Some(I2F(TARGET_AVG))

\* The required grade of the student page, from the grades of the query result.
required_grade(grades) ==
    IF Len(grades) > 0
    THEN LET required == FSub(FMul(I2F(TARGET_AVG), I2F(Len(grades) + 1)),
                              FSum(grades))
         IN IF FGt(required, I2F(MAX_GRADE)) THEN None
            ELSE IF FLt(required, I2F(MIN_GRADE)) THEN Some(I2F(MIN_GRADE))
            ELSE Some(Round2(required))
    ELSE Some(I2F(TARGET_AVG))

\* The statistics student_page (GET) hands to the template; subs is the
\* query result (the student's records, those matching the search).
student_page(subs) ==
    LET grades == [i \in 1..Len(subs) |-> GradeOf(subs[i])]
    IN [status |-> 200,
        avg |-> IF Len(grades) > 0 THEN Round2(Mean(grades)) ELSE I2F(0),
        required_grade |-> required_grade(grades),
        weak_subjects |-> {i \in 1..Len(subs) : FLt(grades[i], I2F(7))}]

\* ------------------------------------------------------- the application
\* The id strings of the URLs: 24 hex digits naming an ObjectId, in lower or
\* in upper case, or text that names none.
NoId == [valid |-> FALSE, hex |-> 0, upper |-> FALSE]
IdStrings ==
    {[valid |-> TRUE, hex |-> h, upper |-> u] : h \in 1..MaxOids, u \in BOOLEAN}
        \cup {NoId}

\* to_objid: ObjectId(id_str), which reads hex digits of either case; None
\* when ObjectId raises.
to_objid(id_str) == IF id_str.valid THEN Some(id_str.hex) ELSE None

\* The form values of a student's name, of a subject's name and of a grade.
StudentNames == {" ", " Ann "}
NameForms == {" ", " Math "}
GradeForms == {"7.125", "x", "NaN", "5", "10.5"}

\* str.strip()
strip(s) ==
    CASE s = " Math " -> "Math"
      [] s = " Ann " -> "Ann"
      [] OTHER -> ""

\* float(text): None when it raises ValueError.
float(text) ==
    CASE text = "NaN" -> Some(NaN)
      [] text = "5" -> Some(Q(5, 1))
      [] text = "7.125" -> Some(Q(57, 8))
      [] text = "10.5" -> Some(Q(21, 2))
      [] OTHER -> None

\* not name or grade < MIN_GRADE or grade > MAX_GRADE
rejects(name, grade) ==
    name = "" \/ FLt(grade, I2F(MIN_GRADE)) \/ FGt(grade, I2F(MAX_GRADE))

\* The threads of the server; a handler that makes a single database call
\* runs on any idle one, in one step.
Workers == {"w1", "w2"}
NoForm == [name |-> "", grade |-> ""]
Idle == [pc |-> "idle", id |-> NoId, form |-> NoForm, subj_name |-> "",
         grade |-> I2F(0)]

\* The response sent: the handler, the form of the request, the status, and
\* whether the step changed db_subjects (new_subjects is db_subjects as the
\* step leaves it).
Sent(op, form, status, new_subjects) ==
    last' = [op |-> op, form |-> form, status |-> status,
             changed |-> new_subjects # db_subjects]

InitApp ==
    /\ db_students = {}
    /\ db_subjects = {}
    /\ thr = [w \in Workers |-> Idle]
    /\ next_oid = 1
    /\ clock = 0
    /\ last = [op |-> "", form |-> NoForm, status |-> 0, changed |-> FALSE]

\* POST /add_student
add_student(student_name) ==
    /\ \E w \in Workers : thr[w].pc = "idle"
    /\ next_oid <= MaxOids
    /\ LET name == strip(student_name)
       IN IF name = ""
          THEN /\ UNCHANGED <<db_students, next_oid>>
               /\ Sent("add_student", NoForm, 400, db_subjects)
          ELSE /\ db_students' = db_students \cup {[_id |-> next_oid, name |-> name]}
               /\ next_oid' = next_oid + 1
               /\ Sent("add_student", NoForm, 302, db_subjects)
    /\ UNCHANGED <<db_subjects, thr, clock, pureVars>>

\* GET /delete_student/<id>, to the return of students.delete_one
delete_student_one(w, id) ==
    /\ thr[w].pc = "idle"
    /\ LET oid == to_objid(id)
       IN IF oid # None
          THEN /\ db_students' = {s \in db_students : s._id # oid[1]}
               /\ thr' = [thr EXCEPT ![w] = [Idle EXCEPT !.pc = "delete_many", !.id = id]]
               /\ UNCHANGED last
          ELSE /\ UNCHANGED <<db_students, thr>>
               /\ Sent("delete_student", NoForm, 302, db_subjects)
    /\ UNCHANGED <<db_subjects, next_oid, clock, pureVars>>

\* delete_student, from subjects.delete_many to the redirect
delete_student_many(w) ==
    /\ thr[w].pc = "delete_many"
    /\ db_subjects' = {s \in db_subjects : s.student_id # thr[w].id}
    /\ thr' = [thr EXCEPT ![w] = Idle]
    /\ Sent("delete_student", NoForm, 302, db_subjects')
    /\ UNCHANGED <<db_students, next_oid, clock, pureVars>>

\* POST /student/<id>, to the checks before subjects.insert_one
add_subject_find(w, id, subject_name, grade_form) ==
    /\ thr[w].pc = "idle"
    /\ next_oid <= MaxOids
    /\ LET oid == to_objid(id)
           subj_name == strip(subject_name)
           grade == float(grade_form)
           form == [name |-> subject_name, grade |-> grade_form]
       IN IF oid = None \/ ~\E s \in db_students : s._id = oid[1]
          THEN /\ UNCHANGED thr
               /\ Sent("add_subject", form, 404, db_subjects)
          ELSE IF grade = None
          THEN /\ UNCHANGED thr
               /\ Sent("add_subject", form, 400, db_subjects)
          ELSE IF rejects(subj_name, grade[1])
          THEN /\ UNCHANGED thr
               /\ Sent("add_subject", form, 400, db_subjects)
          ELSE /\ thr' = [thr EXCEPT ![w] =
                            [pc |-> "insert_one", id |-> id, form |-> form,
                             subj_name |-> subj_name, grade |-> grade[1]]]
               /\ UNCHANGED last
    /\ UNCHANGED <<db_students, db_subjects, next_oid, clock, pureVars>>

\* POST /student/<id>, from subjects.insert_one to the redirect
add_subject_insert(w) ==
    /\ thr[w].pc = "insert_one"
    /\ next_oid <= MaxOids
    /\ db_subjects' = db_subjects \cup
          {[_id |-> next_oid, student_id |-> thr[w].id,
            subject |-> thr[w].subj_name, grade |-> thr[w].grade,
            date_added |-> clock]}
    /\ next_oid' = next_oid + 1
    /\ thr' = [thr EXCEPT ![w] = Idle]
    /\ Sent("add_subject", thr[w].form, 302, db_subjects')
    /\ UNCHANGED <<db_students, clock, pureVars>>

\* POST /edit_subject/<student_id>/<subject_id>
edit_subject(subject_id, new_name_form, new_grade_form) ==
    /\ \E w \in Workers : thr[w].pc = "idle"
    /\ LET oid == to_objid(subject_id)
           new_name == strip(new_name_form)
           new_grade == float(new_grade_form)
           form == [name |-> new_name_form, grade |-> new_grade_form]
       IN IF oid = None
          THEN /\ UNCHANGED db_subjects
               /\ Sent("edit_subject", form, 404, db_subjects)
          ELSE IF new_grade = None
          THEN /\ UNCHANGED db_subjects
               /\ Sent("edit_subject", form, 400, db_subjects)
          ELSE IF rejects(new_name, new_grade[1])
          THEN /\ UNCHANGED db_subjects
               /\ Sent("edit_subject", form, 400, db_subjects)
          ELSE /\ db_subjects' =
                     {IF s._id = oid[1]
                         THEN [s EXCEPT !.subject = new_name, !.grade = new_grade[1]]
                         ELSE s : s \in db_subjects}
               /\ Sent("edit_subject", form, 302, db_subjects')
    /\ UNCHANGED <<db_students, thr, next_oid, clock, pureVars>>

\* GET /delete_subject/<student_id>/<subject_id>
delete_subject(subject_id) ==
    /\ \E w \in Workers : thr[w].pc = "idle"
    /\ LET oid == to_objid(subject_id)
       IN IF oid # None
          THEN db_subjects' = {s \in db_subjects : s._id # oid[1]}
          ELSE UNCHANGED db_subjects
    /\ Sent("delete_subject", NoForm, 302, db_subjects')
    /\ UNCHANGED <<db_students, thr, next_oid, clock, pureVars>>

\* Time passes between two readings of datetime.utcnow().
Tick ==
    /\ clock < MaxClock
    /\ clock' = clock + 1
    /\ UNCHANGED <<db_students, db_subjects, thr, next_oid, last, pureVars>>

\* ------------------------------------------------ the predictor's run
\* A fixed order of the grade fields, to list each collection content once.
GradeOrder == <<None, Some(NaN), Some(Q(6, 1)), Some(Q(7, 1)), Some(Q(57, 8)),
                Some(Q(8, 1)), Some(Q(10, 1))>>
GradeRank(g) == CHOOSE i \in 1..Len(GradeOrder) : GradeOrder[i] = g

\* The contents of the subjects collection for one student that Init draws:
\* any records, each content listed once (by date, then by grade field).
Histories ==
    {h \in UNION {[1..k -> SubjectDocs] : k \in 0..MaxLen} :
        \A i \in 1..(Len(h) - 1) :
            \/ DateKey(h[i]) < DateKey(h[i + 1])
            \/ /\ DateKey(h[i]) = DateKey(h[i + 1])
               /\ GradeRank(h[i].grade) <= GradeRank(h[i + 1].grade)}

Injective(f) == \A i, j \in DOMAIN f : i # j => f[i] # f[j]

\* What find(...).sort("date_added", 1) may return for the records seq: any
\* arrangement in date order (records with equal dates come in any order).
DateSorted(seq) ==
    {s \in {[i \in 1..Len(seq) |-> seq[f[i]]] :
                f \in {g \in [1..Len(seq) -> 1..Len(seq)] : Injective(g)}} :
        SortedByDate(s)}

NoResp == [status |-> 0, prediction |-> None, baseline_avg |-> None,
           explanation |-> ""]
NoPage == [status |-> 0, avg |-> I2F(0), required_grade |-> None,
           weak_subjects |-> {}]

Init ==
    /\ history \in Histories
    /\ pc = "request"
    /\ queried = <<>>
    /\ points = <<>>
    /\ resp = NoResp
    /\ page = NoPage
    /\ InitApp

\* GET /predict/<student_id>
Predict ==
    /\ pc = "request"
    /\ \E s \in DateSorted(history) :
        /\ queried' = s
        /\ points' = IF Len(s) = 0 THEN <<>> ELSE prepare_points_from_subjects(s)
        /\ resp' = predict(s)
    /\ pc' = "predict"
    /\ UNCHANGED <<history, page, appVars>>

\* GET /student/<id>
StudentPage ==
    /\ pc = "request"
    /\ page' = student_page(history)
    /\ pc' = "student_page"
    /\ UNCHANGED <<history, queried, points, resp, appVars>>

Next == Predict \/ StudentPage

Spec == Init /\ [][Next]_vars

\* The application serving requests on two threads, from empty collections.
AppInit ==
    /\ history = <<>>
    /\ pc = "request"
    /\ queried = <<>>
    /\ points = <<>>
    /\ resp = NoResp
    /\ page = NoPage
    /\ InitApp

AppNext ==
    \/ \E n \in StudentNames : add_student(n)
    \/ \E w \in Workers, id \in IdStrings : delete_student_one(w, id)
    \/ \E w \in Workers : delete_student_many(w)
    \/ \E w \in Workers, id \in IdStrings, n \in NameForms, g \in GradeForms :
          add_subject_find(w, id, n, g)
    \/ \E w \in Workers : add_subject_insert(w)
    \/ \E id \in IdStrings, n \in NameForms, g \in GradeForms :
          edit_subject(id, n, g)
    \/ \E id \in IdStrings : delete_subject(id)
    \/ Tick

SpecApp == AppInit /\ [][AppNext]_vars

\* =========================================================== the claims
\* r is v rounded to 2 decimals: the hundredth nearest to v, the even one of
\* the two when v lies halfway (NaN stays NaN).
IsRounded2(r, v) ==
    IF v.nan THEN r.nan
    ELSE \E h \in ((100 * v.n) \div v.d)..((100 * v.n) \div v.d + 1) :
            /\ r = Q(h, 100)
            /\ 2 * Abs(100 * v.n - h * v.d) <= v.d
            /\ 2 * Abs(100 * v.n - h * v.d) = v.d => h % 2 = 0

\* v brought into [MIN_GRADE, MAX_GRADE]; the code's max(.., min(.., v))
\* returns MAX_GRADE for a NaN.
Clamped(v) ==
    IF v.nan THEN I2F(MAX_GRADE)
    ELSE IF FLt(v, I2F(MIN_GRADE)) THEN I2F(MIN_GRADE)
    ELSE IF FGt(v, I2F(MAX_GRADE)) THEN I2F(MAX_GRADE)
    ELSE v

\* The least-squares line in closed form: sums over the points.
SumOver(pts, Term(_)) == FSum([i \in 1..Len(pts) |-> Term(pts[i])])
OlsSlope(pts) ==
    LET n == I2F(Len(pts))
        Sx == SumOver(pts, LAMBDA p : p[1])
        Sy == SumOver(pts, LAMBDA p : p[2])
        Sxy == SumOver(pts, LAMBDA p : FMul(p[1], p[2]))
        Sxx == SumOver(pts, LAMBDA p : FMul(p[1], p[1]))
        den == FSub(FMul(n, Sxx), FMul(Sx, Sx))
    IN IF FEq(den, I2F(0)) THEN I2F(0)
       ELSE FDiv(FSub(FMul(n, Sxy), FMul(Sx, Sy)), den)
OlsRaw(pts) ==
    LET n == I2F(Len(pts))
        x_mean == FDiv(SumOver(pts, LAMBDA p : p[1]), n)
        y_mean == FDiv(SumOver(pts, LAMBDA p : p[2]), n)
        gap == FDiv(FSub(pts[Len(pts)][1], pts[1][1]), I2F(Len(pts) - 1))
        next_x == FAdd(pts[Len(pts)][1], gap)
        slope == OlsSlope(pts)
    IN FAdd(FMul(slope, next_x), FSub(y_mean, FMul(slope, x_mean)))

ExamplePoints ==
    <<<<I2F(0), I2F(6)>>, <<I2F(1), I2F(7)>>, <<I2F(2), I2F(8)>>>>

\* C1: every prediction that is not absent lies within [MIN_GRADE, MAX_GRADE].
C1_PredictionWithinRange ==
    (pc = "predict" /\ resp.prediction # None) =>
        /\ FLe(I2F(MIN_GRADE), resp.prediction[1])
        /\ FLe(resp.prediction[1], I2F(MAX_GRADE))

\* C2: for an empty history predict answers normally, with the prediction
\* and the baseline average both absent.
C2_EmptyHistoryAbsent ==
    (pc = "predict" /\ Len(history) = 0) =>
        /\ resp.status = 200
        /\ resp.prediction = None
        /\ resp.baseline_avg = None
C2_Witness == pc = "predict" /\ Len(history) = 0 /\ resp.status = 200

\* C3 as stated: for one observation (x0, g0) the prediction and the baseline
\* average both equal g0.
C3_SingleObservationExact ==
    (pc = "predict" /\ Len(points) = 1) =>
        /\ resp.prediction = Some(points[1][2])
        /\ resp.baseline_avg = Some(points[1][2])
\* C3 amended: for one observation (x0, g0) the prediction is g0 and the
\* baseline average is g0 rounded to 2 decimals, whatever x0.
C3_SingleObservation ==
    (pc = "predict" /\ Len(points) = 1) =>
        /\ resp.prediction = Some(points[1][2])
        /\ resp.baseline_avg # None
        /\ IsRounded2(resp.baseline_avg[1], points[1][2])
C3_Witness ==
    /\ pc = "predict" /\ Len(points) = 1
    /\ points[1][2] = Q(57, 8)
    /\ resp.baseline_avg = Some(Q(712, 100))

\* C4 as stated: for two or more observations the prediction equals the
\* least-squares value slope * next_x + intercept clipped into
\* [MIN_GRADE, MAX_GRADE]; [(0,6),(1,7),(2,8)] gives 9.0 and baseline 7.0.
C4_TrendClippedExact ==
    (pc = "predict" /\ Len(points) >= 2) =>
        /\ resp.prediction = Some(Clamped(OlsRaw(points)))
        /\ points = ExamplePoints =>
              resp.prediction = Some(I2F(9)) /\ resp.baseline_avg = Some(I2F(7))
\* C4 amended: for two or more observations the prediction equals the
\* least-squares value slope * next_x + intercept clipped into
\* [MIN_GRADE, MAX_GRADE] and then rounded to 2 decimals;
\* [(0,6),(1,7),(2,8)] gives 9.0 and baseline 7.0.
C4_TrendClippedRounded ==
    (pc = "predict" /\ Len(points) >= 2) =>
        /\ resp.prediction # None
        /\ IsRounded2(resp.prediction[1], Clamped(OlsRaw(points)))
        /\ points = ExamplePoints =>
              resp.prediction = Some(I2F(9)) /\ resp.baseline_avg = Some(I2F(7))
C4_Witness ==
    pc = "predict" /\ points = ExamplePoints /\ resp.prediction = Some(I2F(9))

\* The grades of the student page's query result.
GradesOfHistory == [i \in 1..Len(history) |-> GradeOf(history[i])]
\* C5: the required next grade is TARGET_AVG with no grades; otherwise, with
\* required = TARGET_AVG * (count + 1) - sum(grades), it is absent when
\* required > MAX_GRADE, MIN_GRADE when required < MIN_GRADE, and required
\* rounded to 2 decimals otherwise; [10,10] gives 6 and [6,6] gives absent.
C5_RequiredGrade ==
    pc = "student_page" =>
        LET n == Len(history)
            required == FSub(I2F(TARGET_AVG * (n + 1)), FSum(GradesOfHistory))
            shown == page.required_grade
        IN /\ n = 0 => shown = Some(I2F(TARGET_AVG))
           /\ n > 0 /\ FGt(required, I2F(MAX_GRADE)) => shown = None
           /\ n > 0 /\ FLt(required, I2F(MIN_GRADE)) => shown = Some(I2F(MIN_GRADE))
           /\ n > 0 /\ ~FGt(required, I2F(MAX_GRADE)) /\ ~FLt(required, I2F(MIN_GRADE))
                 => shown # None /\ IsRounded2(shown[1], required)
           /\ GradesOfHistory = <<I2F(10), I2F(10)>> => shown = Some(I2F(6))
           /\ GradesOfHistory = <<I2F(6), I2F(6)>> => shown = None
C5_Witness ==
    /\ pc = "student_page"
    /\ GradesOfHistory = <<I2F(10), I2F(10)>>
    /\ page.required_grade = Some(I2F(MIN_GRADE))

\* C6: for exactly one observation the explanation reports insufficient
\* history, and is not the explanation of a trend-based prediction.
C6_SingleObservationExplanation ==
    (pc = "predict" /\ Len(points) = 1) =>
        /\ resp.explanation = BaselineText
        /\ resp.explanation # TrendText

\* C7: the x-values of one history all come from the same source: all are
\* recording timestamps or all are ordinal indices, never a mix.
C7_SingleXSource ==
    (pc = "predict" /\ Len(points) >= 1) =>
        \/ \A i \in 1..Len(points) :
              /\ queried[i].date_added # None
              /\ points[i][1] = I2F(queried[i].date_added[1])
        \/ \A i \in 1..Len(points) : points[i][1] = I2F(i - 1)

\* All grades of the history are equal (as floats compare).
AllGradesEqual == \A i \in 1..Len(points) : FEq(points[i][2], points[1][2])
\* C8 as stated: when every grade of a history of length >= 1 equals g, the
\* fitted slope is 0 and the prediction equals g.
C8_ConstantHistoryExact ==
    (pc = "predict" /\ Len(points) >= 1 /\ AllGradesEqual) =>
        /\ Len(points) >= 2 => lr_slope(points) = I2F(0)
        /\ resp.prediction = Some(points[1][2])
\* C8 amended: when every grade of a history equals g, the fitted slope (two
\* or more observations) is 0, and the prediction is g itself for one
\* observation and g clipped into [MIN_GRADE, MAX_GRADE] and rounded to 2
\* decimals for two or more.
C8_ConstantHistory ==
    (pc = "predict" /\ Len(points) >= 1 /\ AllGradesEqual) =>
        /\ Len(points) >= 2 => lr_slope(points) = I2F(0)
        /\ resp.prediction # None
        /\ Len(points) = 1 => resp.prediction[1] = points[1][2]
        /\ Len(points) >= 2 =>
              IsRounded2(resp.prediction[1], Clamped(points[1][2]))
C8_Witness ==
    /\ pc = "predict" /\ Len(points) >= 2 /\ AllGradesEqual
    /\ points[1][1] # points[2][1]
    /\ points[1][2] = Q(57, 8)
    /\ resp.prediction = Some(Q(712, 100))

\* A form the application is to reject: the grade text is no number, the
\* grade is out of range, or the name is empty.
BadForm(form) ==
    \/ float(form.grade) = None
    \/ FLt(float(form.grade)[1], I2F(MIN_GRADE))
    \/ FGt(float(form.grade)[1], I2F(MAX_GRADE))
    \/ strip(form.name) = ""
\* C9: every stored subject record has a grade within [MIN_GRADE, MAX_GRADE]
\* and a non-empty name, and a request with a non-numeric grade, an
\* out-of-range grade or an empty name is answered 400 and leaves the
\* subjects collection unchanged.  (Read in the claim's favour: a grade text
\* that float() reads as NaN is not counted as a form to reject, and a
\* request answered 404, for an id that names nothing, is left aside.)
C9_StoredSubjectsValid ==
    /\ \A s \in db_subjects :
          /\ FLe(I2F(MIN_GRADE), s.grade)
          /\ FLe(s.grade, I2F(MAX_GRADE))
          /\ s.subject # ""
    /\ ( /\ last.op \in {"add_subject", "edit_subject"}
         /\ BadForm(last.form)
         /\ last.status # 404 ) => (last.status = 400 /\ ~last.changed)

\* C10: whenever no request is in progress, the student_id of every stored
\* subject record names a student of the students collection.
C10_SubjectsHaveStudent ==
    (\A w \in Workers : thr[w].pc = "idle") =>
        \A s \in db_subjects :
            \E st \in db_students : to_objid(s.student_id) = Some(st._id)
====
